---------------------------- MODULE Spec2Model ----------------------------
(***************************************************************************)
(* Model of jsonl_to_html.py: the concurrent media fetcher                 *)
(* (download_media, download_media_batch) and the part of main that calls  *)
(* it and then reconciles the posts.                                       *)
(*                                                                         *)
(* A URL is a sequence of tokens; "&" followed by "amp;" is the HTML       *)
(* entity of "&".  The destination directory is a map from local paths to  *)
(* "absent" / "empty" (a zero-byte file) / "data" (a file of size > 0).    *)
(* Every file-system call, lock operation and network call of a worker is  *)
(* one step, so that workers interleave as threads do.                     *)
(*                                                                         *)
(* Other parts of the program are specified on their own: SpecAddr         *)
(* (get_local_path_for_url on two strings), SpecCollect (the start and     *)
(* the first pass of main, and the dispatch), SpecMerge (the merge of a    *)
(* post's comment listings), SpecAlg (merge_comment_trees applied to       *)
(* three trees), SpecParse (the parse of a raw listing) and SpecHeap (the  *)
(* merge on objects with identity).  Each leaves the variables of the      *)
(* others at rest.  SpecRun is the first pass followed by the fetcher and  *)
(* the second pass.                                                        *)
(***************************************************************************)
EXTENDS Integers, Sequences, FiniteSets, TLC

\* ------------------------------------------------------------------ bounds
MaxUrls == 2        \* size of the largest URL set handed to the fetcher
MaxWorkers == 2     \* worker pool size (--workers)
MaxRuns == 2        \* runs of the program over the same output directory
MaxPosts == 1       \* posts reconciled after the fetch
MaxLines == 2       \* lines of the input file
MaxListings == 2    \* comment listings collected for one post
MaxReplies == 2     \* replies of one comment in one listing
MaxFold == 3        \* comment listings of one post, of small trees
MaxDepth == 3       \* levels of a raw comments listing

\* --------------------------------------------------------------- constants
max_retries == 2    \* download_media: max_retries = 2

\* Values of a dict entry that is not a local path.
None == [hash |-> <<>>, ext |-> "None"]      \* Python's None
NoKey == [hash |-> <<>>, ext |-> "NoKey"]    \* the key is not in the dict
NoUrl == <<>>                                \* no URL, no thread

\* ------------------------------------------------------------------- URLs
\* "x?a&b", its entity-encoded form "x?a&amp;b" and the doubly encoded
\* "x?a&amp;amp;b": U1 and U0 are one reference, U2 is another (it decodes
\* to U1), and the file of U2 is not the file of U0.
U0 == <<"x", "&", "b">>
U1 == <<"x", "&", "amp;", "b">>
U2 == <<"x", "&", "amp;", "amp;", "b">>
Urls == {U0, U1, U2}

\* html_lib.unescape: one left-to-right pass; the text produced by a
\* replacement is not scanned again.
RECURSIVE unescape(_)
unescape(s) ==
    IF s = <<>> THEN <<>>
    ELSE IF Len(s) >= 2 /\ s[1] = "&" /\ s[2] = "amp;"
         THEN <<"&">> \o unescape(SubSeq(s, 3, Len(s)))
         ELSE IF s[1] = "&#46;"
              THEN <<".">> \o unescape(Tail(s))
              ELSE <<s[1]>> \o unescape(Tail(s))

\* The first position of token c in s, Len(s) + 1 when s has none.
RECURSIVE find(_, _)
find(s, c) ==
    IF s = <<>> \/ s[1] = c THEN 1 ELSE 1 + find(Tail(s), c)

\* Python's `sub in s` on token sequences.
contains(s, sub) ==
    \E i \in 1..(Len(s) - Len(sub) + 1) : SubSeq(s, i, i + Len(sub) - 1) = sub

\* urlparse(url).path and .query: the path starts at the token "/a" and
\* ends before "?", the query is what follows "?".
urlpath(s) == SubSeq(s, find(s, "/a"), find(s, "?") - 1)
urlquery(s) == SubSeq(s, find(s, "?") + 1, Len(s))

\* os.path.splitext(path)[1]: the last suffix of the path, "" if none.
Suffixes == {".png", ".gif", ".jpg", ".bak"}
splitext(path) ==
    IF path # <<>> /\ path[Len(path)] \in Suffixes THEN path[Len(path)] ELSE ""

\* parse_qs(query)['format'][0]: the first parameter named format; the
\* parameters are the pieces between "&" tokens.  "" if there is none.
FormatParams == {"format=png", "format=pjpg"}
format_hint(q) ==
    LET at == {i \in 1..Len(q) : /\ q[i] \in FormatParams
                                 /\ (i = 1 \/ q[i - 1] = "&")}
    IN IF at = {} THEN ""
       ELSE q[CHOOSE i \in at : \A j \in at : i <= j]

\* Lines 136-153: the extension of the local file.
KnownExts == {".jpg", ".jpeg", ".png", ".gif", ".webp", ".svg", ".mp4", ".webm"}
infer_ext(url, url_decoded) ==
    LET path == urlpath(url_decoded)
        ext == splitext(path)
        hint == format_hint(urlquery(url_decoded))
    IN IF ext \in KnownExts THEN ext
       ELSE IF hint # ""
            THEN (IF hint = "format=png" THEN ".png" ELSE ".jpg")
            ELSE IF \/ contains(url, <<"preview", ".", "redd.it">>)
                    \/ contains(url, <<"i", ".", "redd.it">>)
                 THEN (IF contains(path, <<".png">>) THEN ".png"
                       ELSE IF contains(path, <<".gif">>) THEN ".gif"
                       ELSE ".jpg")
                 ELSE ".jpg"

\* get_local_path_for_url: md5 of the decoded URL (16 hex digits, taken as
\* injective on the URLs of the model) plus the inferred extension.
get_local_path_for_url(url) ==
    [hash |-> unescape(url), ext |-> infer_ext(url, unescape(url))]

Paths == {get_local_path_for_url(u) : u \in Urls}

\* The tasks whose file is the file of task t.
SamePath(t) == {v \in Urls : get_local_path_for_url(v) = get_local_path_for_url(t)}

VARIABLES
    run,          \* number of the current run of the program
    urls,         \* unique_urls of this run
    mpc,          \* the main thread's position (a line of the source)
    queue,        \* the executor's work queue: submitted, not started
    pc,           \* each task's position; "none": not submitted
    attempt,      \* each task's loop variable
    lock,         \* holder of the Lock of download_media_batch
    map,          \* url_to_local_path; NoKey: the key is not in the dict
    results,      \* results of download_media_batch; NoKey: not yet set
    repl,         \* url_replacements of main
    reconciled,   \* posts parsed and merged so far
    fs,           \* the media directory: path -> absent / empty / data
    att,          \* the task's open file is the file now at its path
    buf,          \* the task's open file has written bytes not yet flushed
    any,          \* the task's current response has delivered a chunk
    ret,          \* what download_media returned (None if it raised)
    \* history, read only by the properties
    how,          \* how each task ended
    reqs,         \* network requests issued by each task
    fail,         \* kind of failure of each attempt of each task
    slept,        \* the task slept between its attempts
    cleaned,      \* lines 214-215 of the task's first attempt: cleaned / absent
    wrote,        \* the map entries each task added or changed
    late,         \* the task started when its decoded URL was recorded
    netBad,       \* some response to the task was not a good one
    fs0,          \* the media directory when the run started
    \* get_local_path_for_url called on two strings
    r1, r2,       \* the two URL strings
    p1, p2,       \* the local path returned for each; NoKey: not yet called
    \* the first pass of main (load_jsonl_file) up to the dispatch
    jsonl,        \* the lines of the input file
    line_num,     \* lines read so far
    all_media_urls, \* the set main hands to download_media_batch
    unique_urls,  \* list(set(urls)) of download_media_batch
    cpc,          \* "off"; main's position: "L1109", "L1121", "load" (first
                  \* pass), "dispatched"; "exit_nofiles", "exit_noposts":
                  \* main returned; "aborted": an exception left main
    input_ok,     \* get_input_files found a .jsonl file
    outdir,       \* what main has created in the output location
    posts_data,   \* post id -> post_item and comments_listings
    kept,         \* history: the line each post_item of posts_data is from
    \* the second pass of main for one post (lines 1165-1189)
    listings,     \* the comment trees parsed from the post's listings
    li,           \* listings taken so far
    merged_comment_tree, \* the local variable of main
    comment_tree, \* post['comment_tree']
    mgpc,         \* "off", "L1167" (before the parse), "L1181" (loop), "done"
    \* merge_comment_trees applied to three trees in several ways
    ins,          \* the trees A, B, C
    outs,         \* the results so far, in the order they are computed
    children,     \* children of the comments listing handed to parse_reddit_post
    ci,           \* children the loop of parse_reddit_post has taken
    post_tree,    \* comment_tree of parse_reddit_post
    ppc,          \* "off", "L441" (in the loop) or "done"
    heap,         \* the objects: heap[a] is a comment (a dict whose replies field
                  \* is the address of a list) or a list or dict of addresses
    tree_refs,    \* addresses of the comment trees parsed from the listings
    merged_ref,   \* address of merged_comment_tree, 0 before the first parse
    hi            \* listings taken by the loop of main

vars == <<run, urls, mpc, queue, pc, attempt, lock, map, results, repl,
          reconciled, fs, att, buf, any, ret, how, reqs, fail, slept,
          cleaned, wrote, late, netBad, fs0, r1, r2, p1, p2,
          jsonl, line_num, all_media_urls, unique_urls, cpc,
          input_ok, outdir, posts_data, kept,
          listings, li, merged_comment_tree, comment_tree, mgpc,
          ins, outs,
          children, ci, post_tree, ppc,
          heap, tree_refs, merged_ref, hi>>

\* The variables of the fetcher and of main, and those of the functions
\* that are checked on their own.
fetchVars == <<run, urls, mpc, queue, pc, attempt, lock, map, results, repl,
               reconciled, fs, att, buf, any, ret, how, reqs, fail, slept,
               cleaned, wrote, late, netBad, fs0>>
addrVars == <<r1, r2, p1, p2>>
collectVars == <<jsonl, line_num, all_media_urls, unique_urls, cpc,
                 input_ok, outdir, posts_data, kept>>
mergeVars == <<listings, li, merged_comment_tree, comment_tree, mgpc>>
algVars == <<ins, outs>>
parseVars == <<children, ci, post_tree, ppc>>
heapVars == <<heap, tree_refs, merged_ref, hi>>
pureVars == <<addrVars, collectVars, mergeVars, algVars, parseVars, heapVars>>

mainVars == <<run, urls, mpc, results, repl, reconciled, fs0>>
histVars == <<how, reqs, fail, slept, cleaned, wrote, late, netBad>>
fileVars == <<fs, att, buf, any>>

\* ------------------------------------------------------------------- Init
EmptyDict == [u \in Urls |-> NoKey]
AllFalse == [u \in Urls |-> FALSE]

\* Nothing is submitted, the dicts are empty (lines 1148, 239, 242, 1154).
FreshTasks ==
    /\ queue = <<>>
    /\ pc = [u \in Urls |-> "none"]
    /\ attempt = [u \in Urls |-> 0]
    /\ lock = NoUrl
    /\ map = EmptyDict
    /\ results = EmptyDict
    /\ repl = EmptyDict
    /\ reconciled = 0
    /\ att = AllFalse
    /\ buf = AllFalse
    /\ any = AllFalse
    /\ ret = [u \in Urls |-> None]
    /\ how = [u \in Urls |-> "none"]
    /\ reqs = [u \in Urls |-> 0]
    /\ fail = [u \in Urls |-> <<"none", "none">>]
    /\ slept = AllFalse
    /\ cleaned = [u \in Urls |-> "no"]
    /\ wrote = [u \in Urls |-> {}]
    /\ late = AllFalse
    /\ netBad = AllFalse

\* The same at the start of another run.
FreshTasksNext ==
    /\ queue' = <<>>
    /\ pc' = [u \in Urls |-> "none"]
    /\ attempt' = [u \in Urls |-> 0]
    /\ lock' = NoUrl
    /\ map' = EmptyDict
    /\ results' = EmptyDict
    /\ repl' = EmptyDict
    /\ reconciled' = 0
    /\ att' = AllFalse
    /\ buf' = AllFalse
    /\ any' = AllFalse
    /\ ret' = [u \in Urls |-> None]
    /\ how' = [u \in Urls |-> "none"]
    /\ reqs' = [u \in Urls |-> 0]
    /\ fail' = [u \in Urls |-> <<"none", "none">>]
    /\ slept' = AllFalse
    /\ cleaned' = [u \in Urls |-> "no"]
    /\ wrote' = [u \in Urls |-> {}]
    /\ late' = AllFalse
    /\ netBad' = AllFalse

UrlSets == {S \in SUBSET Urls : Cardinality(S) <= MaxUrls}

\* main up to line 1148: the media directory is new, the URLs are collected.
\* No call of get_local_path_for_url is being checked on its own.
AddrIdle == r1 = NoUrl /\ r2 = NoUrl /\ p1 = NoKey /\ p2 = NoKey

\* The first pass is not being checked on its own.
CollectIdle ==
    /\ jsonl = <<>>
    /\ line_num = 0
    /\ all_media_urls = {}
    /\ unique_urls = {}
    /\ cpc = "off"
    /\ input_ok = FALSE
    /\ outdir = {}
    /\ posts_data = <<>>
    /\ kept = <<>>

\* The second pass is not being checked on its own.
MergeIdle ==
    /\ listings = <<>>
    /\ li = 0
    /\ merged_comment_tree = <<>>
    /\ comment_tree = <<>>
    /\ mgpc = "off"

\* No merge of three trees is being checked.
AlgIdle ==
    ins = <<>> /\ outs = <<>>

ParseIdle ==
    /\ children = <<>>
    /\ ci = 0
    /\ post_tree = <<>>
    /\ ppc = "off"

HeapIdle ==
    /\ heap = <<>>
    /\ tree_refs = <<>>
    /\ merged_ref = 0
    /\ hi = 0

PureIdle == AddrIdle /\ CollectIdle /\ MergeIdle /\ AlgIdle /\ ParseIdle /\ HeapIdle

\* The fetcher and main are not running.
FetchIdle ==
    /\ run = 0
    /\ urls = {}
    /\ mpc = "off"
    /\ fs = [p \in Paths |-> "absent"]
    /\ fs0 = fs
    /\ FreshTasks

Init ==
    /\ run = 1
    /\ urls \in UrlSets
    /\ mpc = "L1149"
    /\ fs = [p \in Paths |-> "absent"]
    /\ fs0 = fs
    /\ FreshTasks
    /\ PureIdle

\* -------------------------------------------------------------- helpers
Running == {u \in Urls : pc[u] \notin {"none", "pending", "done"}}

Keys(d) == {k \in Urls : d[k] # NoKey}

\* A mutant of LockAvailable: acquire never blocks.
LockAvailableAlways == TRUE

\* threading.Lock: acquire blocks while another thread holds the lock.
LockAvailable == lock = NoUrl

\* A mutant of Finish: the task returns its local path whatever happened.
FinishWithPath(t, h, value) ==
    /\ pc' = [pc EXCEPT ![t] = "done"]
    /\ how' = [how EXCEPT ![t] = h]
    /\ ret' = [ret EXCEPT ![t] = get_local_path_for_url(t)]

\* The task returns (or raises): its future is done.
Finish(t, h, value) ==
    /\ pc' = [pc EXCEPT ![t] = "done"]
    /\ how' = [how EXCEPT ![t] = h]
    /\ ret' = [ret EXCEPT ![t] = value]

\* `continue` and the loop header at line 181: the next attempt, or line 225.
NextAttempt(t) ==
    IF attempt[t] + 1 < max_retries
    THEN /\ attempt' = [attempt EXCEPT ![t] = attempt[t] + 1]
         /\ pc' = [pc EXCEPT ![t] = "L194"]
         /\ UNCHANGED <<how, ret>>
    ELSE /\ Finish(t, "exhausted", None)
         /\ UNCHANGED attempt

\* Lines 218-223 and 227-228: `except RequestException`; it sleeps and
\* retries, or raises again on the last attempt, where the outer `except`
\* returns None.
Handler(t) ==
    IF attempt[t] < max_retries - 1
    THEN /\ pc' = [pc EXCEPT ![t] = "L220"]
         /\ UNCHANGED <<how, ret, attempt>>
    ELSE /\ Finish(t, "exhausted", None)
         /\ UNCHANGED attempt

\* ------------------------------------------------- download_media (a task)
\* A worker thread of the pool takes the next task from the work queue.
Start(t) ==
    /\ UNCHANGED pureVars
    /\ mpc \in {"L245", "L247"}
    /\ queue # <<>> /\ Head(queue) = t
    /\ Cardinality(Running) < MaxWorkers
    /\ queue' = Tail(queue)
    /\ pc' = [pc EXCEPT ![t] = "L163"]
    /\ late' = [late EXCEPT ![t] = map[unescape(t)] # NoKey]
    /\ UNCHANGED <<mainVars, fileVars, attempt, lock, map, ret, how, reqs,
                   fail, slept, cleaned, wrote, netBad>>

\* `with lock:` at lines 163, 172 and 209.
Acquire(t) ==
    /\ UNCHANGED pureVars
    /\ pc[t] \in {"L163", "L172", "L209"}
    /\ LockAvailable
    /\ lock' = t
    /\ pc' = [pc EXCEPT ![t] = CASE pc[t] = "L163" -> "L164"
                                 [] pc[t] = "L172" -> "L173"
                                 [] pc[t] = "L209" -> "L210"]
    /\ UNCHANGED <<mainVars, histVars, fileVars, queue, attempt, map, ret>>

\* A mutant of CacheHit: the map is not consulted.
CacheHitNever(t) == NoUrl

\* Lines 164-167: the key under which the map already holds the URL, the
\* decoded form first; NoUrl if neither form is a key.
CacheHit(t) ==
    IF map[unescape(t)] # NoKey THEN unescape(t)
    ELSE IF map[t] # NoKey THEN t
    ELSE NoUrl

\* Lines 164-169, holding the lock: return the recorded path, or go on.
CheckMap(t) ==
    /\ UNCHANGED pureVars
    /\ pc[t] = "L164"
    /\ lock' = NoUrl
    /\ IF CacheHit(t) # NoUrl
       THEN Finish(t, "cached", map[CacheHit(t)])
       ELSE /\ pc' = [pc EXCEPT ![t] = "L171"]
            /\ UNCHANGED <<how, ret>>
    /\ UNCHANGED <<mainVars, fileVars, queue, attempt, map, reqs, fail,
                   slept, cleaned, wrote, late, netBad>>

\* A mutant of FileThere: the file is never found.
FileThereNever(t) == FALSE

\* os.path.exists(local_path)
FileThere(t) == fs[get_local_path_for_url(t)] # "absent"

\* Line 171, os.path.exists: a file is there, or the download begins.
Exists171(t) ==
    /\ UNCHANGED pureVars
    /\ pc[t] = "L171"
    /\ pc' = [pc EXCEPT ![t] = IF FileThere(t) THEN "L171s" ELSE "L194"]
    /\ UNCHANGED <<mainVars, histVars, fileVars, queue, attempt, lock, map, ret>>

\* Line 171, os.path.getsize: it raises OSError if the file has gone, and
\* the exception leaves download_media (line 171 is outside the try).
Size171(t) ==
    /\ UNCHANGED pureVars
    /\ pc[t] = "L171s"
    /\ LET f == fs[get_local_path_for_url(t)] IN
         CASE f = "absent" -> Finish(t, "raised", None)
           [] f = "data" -> /\ pc' = [pc EXCEPT ![t] = "L172"]
                            /\ UNCHANGED <<how, ret>>
           [] f = "empty" -> /\ pc' = [pc EXCEPT ![t] = "L194"]
                             /\ UNCHANGED <<how, ret>>
    /\ UNCHANGED <<mainVars, fileVars, queue, attempt, lock, map, reqs,
                   fail, slept, cleaned, wrote, late, netBad>>

\* A mutant of Recorded: only the original form of the URL is recorded.
RecordedRawOnly(t, key) ==
    [map EXCEPT ![t] = get_local_path_for_url(t)]

\* The two assignments under the lock (lines 173-174 and 210-211): `key` is
\* url_decoded (url_to_fetch), then the URL as given.
Recorded(t, key) ==
    [map EXCEPT ![key] = get_local_path_for_url(t),
                ![t] = get_local_path_for_url(t)]

\* Lines 173-175 and 210-212, holding the lock: record and return the path.
Record(t) ==
    /\ UNCHANGED pureVars
    /\ pc[t] \in {"L173", "L210"}
    /\ map' = Recorded(t, unescape(t))
    /\ wrote' = [wrote EXCEPT ![t] = {k \in Urls : map'[k] # map[k]}]
    /\ lock' = NoUrl
    /\ Finish(t, IF pc[t] = "L173" THEN "existing" ELSE "fetched",
              get_local_path_for_url(t))
    /\ UNCHANGED <<mainVars, fileVars, queue, attempt, reqs, fail, slept,
                   cleaned, late, netBad>>


\* Lines 183-201: requests.get and raise_for_status.  The response begins,
\* or a RequestException is raised (a transport error, or HTTPError).
Request(t) ==
    /\ UNCHANGED pureVars
    /\ pc[t] = "L194"
    /\ reqs' = [reqs EXCEPT ![t] = reqs[t] + 1]
    /\ \E outcome \in {"ok", "transport", "status"} :
         IF outcome = "ok"
         THEN /\ pc' = [pc EXCEPT ![t] = "L203"]
              /\ UNCHANGED <<how, ret, attempt, fail, netBad>>
         ELSE /\ fail' = [fail EXCEPT ![t][attempt[t] + 1] = outcome]
              /\ netBad' = [netBad EXCEPT ![t] = TRUE]
              /\ Handler(t)
    /\ UNCHANGED <<mainVars, fileVars, queue, lock, map, slept, cleaned,
                   wrote, late>>

\* Line 220: time.sleep(0.5), then `continue`.
Sleep(t) ==
    /\ UNCHANGED pureVars
    /\ pc[t] = "L220"
    /\ slept' = [slept EXCEPT ![t] = TRUE]
    /\ attempt' = [attempt EXCEPT ![t] = attempt[t] + 1]
    /\ pc' = [pc EXCEPT ![t] = "L194"]
    /\ UNCHANGED <<mainVars, fileVars, queue, lock, map, ret, how, reqs,
                   fail, cleaned, wrote, late, netBad>>

\* Line 203: open(local_path, 'wb') creates the file, or truncates the one
\* that is there (the file other tasks may have open).
Open(t) ==
    /\ UNCHANGED pureVars
    /\ pc[t] = "L203"
    /\ fs' = [fs EXCEPT ![get_local_path_for_url(t)] = "empty"]
    /\ att' = [att EXCEPT ![t] = TRUE]
    /\ buf' = [buf EXCEPT ![t] = FALSE]
    /\ any' = [any EXCEPT ![t] = FALSE]
    /\ pc' = [pc EXCEPT ![t] = "L204"]
    /\ UNCHANGED <<mainVars, histVars, queue, attempt, lock, map, ret>>

\* Lines 204-206: a non-empty chunk arrives and is written (buffered).
Chunk(t) ==
    /\ UNCHANGED pureVars
    /\ pc[t] = "L204"
    /\ any' = [any EXCEPT ![t] = TRUE]
    /\ buf' = [buf EXCEPT ![t] = TRUE]
    /\ UNCHANGED <<mainVars, histVars, queue, pc, attempt, lock, map, ret,
                   fs, att>>

\* The file after task t's buffered bytes reach it: they go to the file the
\* task opened, which is the one at its path unless that was removed.
Flushed(t) ==
    IF buf[t] /\ att[t]
    THEN [fs EXCEPT ![get_local_path_for_url(t)] = "data"]
    ELSE fs

\* The buffer of the open file fills and is written out.
Flush(t) ==
    /\ UNCHANGED pureVars
    /\ pc[t] = "L204"
    /\ buf[t]
    /\ fs' = Flushed(t)
    /\ buf' = [buf EXCEPT ![t] = FALSE]
    /\ UNCHANGED <<mainVars, histVars, queue, pc, attempt, lock, map, ret,
                   att, any>>

\* The end of `with open(...)`: the file is flushed and closed.
CloseFile(t) ==
    /\ fs' = Flushed(t)
    /\ att' = [att EXCEPT ![t] = FALSE]
    /\ buf' = [buf EXCEPT ![t] = FALSE]
    /\ any' = [any EXCEPT ![t] = FALSE]

\* Lines 204-208: the response ends; the file is closed.
StreamEnd(t) ==
    /\ UNCHANGED pureVars
    /\ pc[t] = "L204"
    /\ CloseFile(t)
    /\ netBad' = [netBad EXCEPT ![t] = netBad[t] \/ ~any[t]]
    /\ pc' = [pc EXCEPT ![t] = "L208"]
    /\ UNCHANGED <<mainVars, queue, attempt, lock, map, ret, how, reqs,
                   fail, slept, cleaned, wrote, late>>

\* Line 204: iter_content raises a RequestException; the file is closed
\* with what was written and stays.
StreamError(t) ==
    /\ UNCHANGED pureVars
    /\ pc[t] = "L204"
    /\ CloseFile(t)
    /\ fail' = [fail EXCEPT ![t][attempt[t] + 1] = "stream"]
    /\ netBad' = [netBad EXCEPT ![t] = TRUE]
    /\ Handler(t)
    /\ UNCHANGED <<mainVars, queue, lock, map, reqs, slept, cleaned, wrote,
                   late>>

\* Line 208, os.path.exists.
Exists208(t) ==
    /\ UNCHANGED pureVars
    /\ pc[t] = "L208"
    /\ IF FileThere(t)
       THEN /\ pc' = [pc EXCEPT ![t] = "L208s"]
            /\ UNCHANGED fail
       ELSE /\ pc' = [pc EXCEPT ![t] = "L214"]
            /\ fail' = [fail EXCEPT ![t][attempt[t] + 1] = "missing"]
    /\ UNCHANGED <<mainVars, fileVars, queue, attempt, lock, map, ret, how,
                   reqs, slept, cleaned, wrote, late, netBad>>

\* Line 208, os.path.getsize: OSError if the file has gone (caught at line
\* 227), the lock if the size is positive, else line 214.
Size208(t) ==
    /\ UNCHANGED pureVars
    /\ pc[t] = "L208s"
    /\ LET f == fs[get_local_path_for_url(t)] IN
         CASE f = "absent" -> /\ Finish(t, "oserror", None)
                              /\ fail' = [fail EXCEPT ![t][attempt[t] + 1] = "oserror"]
           [] f = "data" -> /\ pc' = [pc EXCEPT ![t] = "L209"]
                            /\ UNCHANGED <<how, ret, fail>>
           [] f = "empty" -> /\ pc' = [pc EXCEPT ![t] = "L214"]
                             /\ fail' = [fail EXCEPT ![t][attempt[t] + 1] = "zero"]
                             /\ UNCHANGED <<how, ret>>
    /\ UNCHANGED <<mainVars, fileVars, queue, attempt, lock, map, reqs,
                   slept, cleaned, wrote, late, netBad>>

\* Line 214, os.path.exists: line 215, or `continue` at once.
Exists214(t) ==
    /\ UNCHANGED pureVars
    /\ pc[t] = "L214"
    /\ IF FileThere(t)
       THEN /\ pc' = [pc EXCEPT ![t] = "L215"]
            /\ UNCHANGED <<how, ret, attempt, cleaned>>
       ELSE /\ cleaned' = [cleaned EXCEPT ![t] =
                              IF attempt[t] = 0 THEN "absent" ELSE @]
            /\ NextAttempt(t)
    /\ UNCHANGED <<mainVars, fileVars, queue, lock, map, reqs, fail, slept,
                   wrote, late, netBad>>

\* A mutant of Unlinked: the file is left where it is.
UnlinkedNot(t) == fs

\* os.remove(local_path)
Unlinked(t) == [fs EXCEPT ![get_local_path_for_url(t)] = "absent"]

\* Line 215, os.remove: OSError if the file has gone (caught at line 227);
\* else the file is removed, and tasks that have it open keep writing to a
\* file that has no name.  Then `continue`.
Remove215(t) ==
    /\ UNCHANGED pureVars
    /\ pc[t] = "L215"
    /\ IF ~FileThere(t)
       THEN /\ Finish(t, "oserror", None)
            /\ UNCHANGED <<attempt, cleaned, fs, att>>
       ELSE /\ fs' = Unlinked(t)
            /\ att' = [v \in Urls |-> att[v] /\ v \notin SamePath(t)]
            /\ cleaned' = [cleaned EXCEPT ![t] =
                              IF attempt[t] = 0 /\ fs'[get_local_path_for_url(t)] = "absent"
                              THEN "removed" ELSE @]
            /\ NextAttempt(t)
    /\ UNCHANGED <<mainVars, queue, lock, map, reqs, fail, slept, wrote,
                   late, netBad, buf, any>>


\* ---------------------------------------- download_media_batch and main
\* Lines 1149-1150 and 233-235: the batch is called if there are URLs.
CallBatch ==
    /\ UNCHANGED pureVars
    /\ mpc = "L1149"
    /\ mpc' = IF urls # {} THEN "L245" ELSE "L1154"
    /\ UNCHANGED <<run, urls, results, repl, reconciled, fs0, histVars,
                   fileVars, queue, pc, attempt, lock, map, ret>>

\* Line 245: executor.submit for the next URL of unique_urls.
Submit(u) ==
    /\ UNCHANGED pureVars
    /\ mpc = "L245"
    /\ u \in urls /\ pc[u] = "none"
    /\ pc' = [pc EXCEPT ![u] = "pending"]
    /\ queue' = Append(queue, u)
    /\ mpc' = IF \A v \in urls \ {u} : pc[v] # "none" THEN "L247" ELSE "L245"
    /\ UNCHANGED <<run, urls, results, repl, reconciled, fs0, histVars,
                   fileVars, attempt, lock, map, ret>>

\* Lines 247-260: as_completed yields a finished future; its result, or
\* None if it raised, is stored.
Collect(u) ==
    /\ UNCHANGED pureVars
    /\ mpc = "L247"
    /\ u \in urls /\ pc[u] = "done" /\ results[u] = NoKey
    /\ results' = [results EXCEPT ![u] = ret[u]]
    /\ UNCHANGED <<run, urls, mpc, repl, reconciled, fs0, histVars,
                   fileVars, queue, pc, attempt, lock, map, ret>>

\* A mutant of BatchComplete: the batch returns once the tasks are submitted.
BatchCompleteNoWait == \A u \in urls : pc[u] # "none"

\* Lines 247 and 244: as_completed has yielded every future and the
\* executor's `with` block has shut down, which waits for every task.
BatchComplete == \A u \in urls : pc[u] = "done" /\ results[u] # NoKey

\* Line 266: download_media_batch returns to main.
ReturnBatch ==
    /\ UNCHANGED pureVars
    /\ mpc = "L247"
    /\ BatchComplete
    /\ mpc' = "L1151"
    /\ UNCHANGED <<run, urls, results, repl, reconciled, fs0, histVars,
                   fileVars, queue, pc, attempt, lock, map, ret>>

\* A mutant of Update: the map is replaced by the batch's result, not updated.
UpdateReplacing ==
    /\ UNCHANGED pureVars
    /\ mpc = "L1151"
    /\ map' = results
    /\ mpc' = "L1154"
    /\ UNCHANGED <<run, urls, results, repl, reconciled, fs0, histVars,
                   fileVars, queue, pc, attempt, lock, ret>>

\* Line 1151: url_to_local_path.update(downloaded).
Update ==
    /\ UNCHANGED pureVars
    /\ mpc = "L1151"
    /\ map' = [k \in Urls |-> IF results[k] # NoKey THEN results[k] ELSE map[k]]
    /\ mpc' = "L1154"
    /\ UNCHANGED <<run, urls, results, repl, reconciled, fs0, histVars,
                   fileVars, queue, pc, attempt, lock, ret>>

\* Lines 1154-1159: url_replacements, one entry per URL that has a path.
BuildReplacements ==
    /\ UNCHANGED pureVars
    /\ mpc = "L1154"
    /\ repl' = [k \in Urls |-> IF map[k] \notin {NoKey, None} THEN map[k] ELSE NoKey]
    /\ mpc' = "L1165"
    /\ UNCHANGED <<run, urls, results, reconciled, fs0, histVars, fileVars,
                   queue, pc, attempt, lock, map, ret>>

\* Lines 1165-1189: the next post is parsed with url_replacements and merged.
Reconcile ==
    /\ UNCHANGED pureVars
    /\ mpc = "L1165"
    /\ reconciled < MaxPosts
    /\ reconciled' = reconciled + 1
    /\ UNCHANGED <<run, urls, mpc, results, repl, fs0, histVars, fileVars,
                   queue, pc, attempt, lock, map, ret>>

\* Lines 1202-1211: the HTML and the JSONL are written; the run ends.
Emit ==
    /\ UNCHANGED pureVars
    /\ mpc = "L1165"
    /\ reconciled = MaxPosts
    /\ mpc' = "end"
    /\ UNCHANGED <<run, urls, results, repl, reconciled, fs0, histVars,
                   fileVars, queue, pc, attempt, lock, map, ret>>

\* The program is run again on the same input and the same output
\* directory (lines 1119-1148).
Rerun ==
    /\ UNCHANGED pureVars
    /\ mpc = "end"
    /\ run < MaxRuns
    /\ run' = run + 1
    /\ urls' = urls
    /\ mpc' = "L1149"
    /\ fs0' = fs
    /\ UNCHANGED fs
    /\ FreshTasksNext

Next ==
    \/ \E t \in Urls :
         \/ Start(t) \/ Acquire(t) \/ CheckMap(t)
         \/ Exists171(t) \/ Size171(t) \/ Record(t)
         \/ Request(t) \/ Sleep(t) \/ Open(t) \/ Chunk(t) \/ Flush(t)
         \/ StreamEnd(t) \/ StreamError(t)
         \/ Exists208(t) \/ Size208(t) \/ Exists214(t) \/ Remove215(t)
         \/ Submit(t) \/ Collect(t)
    \/ CallBatch \/ ReturnBatch \/ Update \/ BuildReplacements
    \/ Reconcile \/ Emit \/ Rerun

Spec == Init /\ [][Next]_vars

\* A worker thread that can take a step of its task takes one in the end;
\* the steps that read the response body for ever are not among them, so
\* that a response ends or fails (every request returns or times out).
TaskStep(t) ==
    \/ Start(t) \/ Acquire(t) \/ CheckMap(t)
    \/ Exists171(t) \/ Size171(t) \/ Record(t)
    \/ Request(t) \/ Sleep(t) \/ Open(t)
    \/ StreamEnd(t) \/ StreamError(t)
    \/ Exists208(t) \/ Size208(t) \/ Exists214(t) \/ Remove215(t)

\* The main thread inside download_media_batch goes on when it can.
BatchStep ==
    \/ CallBatch \/ ReturnBatch
    \/ \E u \in Urls : Submit(u) \/ Collect(u)

\* One run of the program.
NextLive ==
    \/ \E t \in Urls :
         \/ TaskStep(t) \/ Chunk(t) \/ Flush(t)
         \/ Submit(t) \/ Collect(t)
    \/ CallBatch \/ ReturnBatch \/ Update \/ BuildReplacements
    \/ Reconcile \/ Emit

SpecLive ==
    /\ Init
    /\ [][NextLive]_vars
    /\ \A t \in Urls : WF_vars(TaskStep(t))
    /\ WF_vars(BatchStep)


\* ------------------------------------------- get_local_path_for_url alone
\* URL strings: a host (preview.redd.it, the same with its first dot
\* written as the entity "&#46;", i.redd.it, or another host "x"), the path
\* "/a" with suffixes, and a query whose "&" may be written "&amp;".
AddrHosts == {<<"preview", ".", "redd.it">>, <<"preview", "&#46;", "redd.it">>,
              <<"i", ".", "redd.it">>, <<"x">>}
AddrSuffixes == {<<>>, <<".png">>, <<".png", ".bak">>, <<".gif", ".bak">>,
                 <<".bak">>}
AddrQueries == {<<>>, <<"?", "w=1">>, <<"?", "format=png">>,
                <<"?", "w=1", "&", "format=pjpg">>,
                <<"?", "w=1", "&", "amp;", "format=png">>}
AddrUrls == {h \o <<"/a">> \o x \o q :
                h \in AddrHosts, x \in AddrSuffixes, q \in AddrQueries}

InitAddr ==
    /\ r1 \in AddrUrls
    /\ r2 \in AddrUrls
    /\ p1 = NoKey
    /\ p2 = NoKey
    /\ FetchIdle
    /\ HeapIdle
    /\ ParseIdle
    /\ AlgIdle
    /\ CollectIdle
    /\ MergeIdle

\* get_local_path_for_url(r1, media_dir) and the same for r2.
Address1 ==
    /\ p1 = NoKey
    /\ p1' = get_local_path_for_url(r1)
    /\ UNCHANGED <<fetchVars, heapVars, parseVars, algVars, collectVars, mergeVars, r1, r2, p2>>

Address2 ==
    /\ p2 = NoKey
    /\ p2' = get_local_path_for_url(r2)
    /\ UNCHANGED <<fetchVars, heapVars, parseVars, algVars, collectVars, mergeVars, r1, r2, p1>>

NextAddr == Address1 \/ Address2

SpecAddr == InitAddr /\ [][NextAddr]_vars


\* ------------------------------------------ the first pass and the dispatch
\* extract_media_urls_from_text: `text` is the sequence of the strings the
\* patterns match; a match is kept the first time it is found.
RECURSIVE extract_media_urls_from_text(_)
extract_media_urls_from_text(text) ==
    IF text = <<>> THEN <<>>
    ELSE LET front == SubSeq(text, 1, Len(text) - 1)
             match == text[Len(text)]
             found == extract_media_urls_from_text(front)
         IN IF \E i \in 1..Len(found) : found[i] = match
            THEN found ELSE Append(found, match)

Range(f) == {f[i] : i \in DOMAIN f}

\* extract_media_from_reddit_post: the url field as it is, the preview
\* source after html_lib.unescape, the matches of the selftext as they are.
extract_media_from_reddit_post(post_data) ==
    (IF post_data.url # NoUrl THEN {post_data.url} ELSE {})
    \cup (IF post_data.preview # NoUrl THEN {unescape(post_data.preview)} ELSE {})
    \cup Range(extract_media_urls_from_text(post_data.selftext))

\* extract_media_from_comment: the matches of the comment's body.
extract_media_from_comment(comment_data) ==
    Range(extract_media_urls_from_text(comment_data.body))

\* A line holds a post and one comment, or is not valid JSON (or not a
\* listing pair), or holds bytes that are not UTF-8.  name is the post id,
\* "" when the record has none.
PostIds == {"t3_p", "t3_q"}
PostData == [name : PostIds \cup {""},
             url : {NoUrl, U0, U1}, preview : {NoUrl, U0, U1},
             selftext : {<<>>, <<U1>>, <<U1, U1>>, <<U0, U1>>}]
CommentData == [body : {<<>>, <<U1>>}]
BadLine == [kind |-> "bad"]
Undecodable == [kind |-> "undecodable"]
\* A line whose processing raises an exception part-way (the except of
\* line 1016 prints the warning): after the media of its post were added,
\* in the comments listing (line 977, a listing without 'data'), or after
\* its post was stored, at a next child of the posts listing that is not a
\* dict (line 966).
ErrLines ==
    [kind : {"err"},
     post : {[name |-> "t3_q", url |-> U0, preview |-> NoUrl,
              selftext |-> <<>>]},
     comment : {[body |-> <<>>]},
     at : {"comment", "next"}]
JsonLines == [kind : {"ok"}, post : PostData, comment : CommentData]
                 \cup {BadLine, Undecodable} \cup ErrLines

\* len(str(selftext)): the text is as long as the tokens of its URLs.
RECURSIVE strlen(_)
strlen(text) == IF text = <<>> THEN 0 ELSE Len(text[1]) + strlen(Tail(text))

\* main is at its start; --input names .jsonl files or not.
InitCollect ==
    /\ input_ok \in BOOLEAN
    /\ IF input_ok THEN \E n \in 0..MaxLines : jsonl \in [1..n -> JsonLines]
                   ELSE jsonl = <<>>
    /\ line_num = 0
    /\ all_media_urls = {}
    /\ unique_urls = {}
    /\ cpc = "L1109"
    /\ outdir = {}
    /\ posts_data = <<>>
    /\ kept = <<>>
    /\ FetchIdle
    /\ HeapIdle
    /\ ParseIdle
    /\ AlgIdle
    /\ AddrIdle
    /\ MergeIdle

\* Lines 1109-1113: without input files main returns.
GetInputFiles ==
    /\ cpc = "L1109"
    /\ cpc' = IF input_ok THEN "L1121" ELSE "exit_nofiles"
    /\ UNCHANGED <<fetchVars, heapVars, parseVars, algVars, addrVars, mergeVars, jsonl, line_num,
                   all_media_urls, unique_urls, input_ok, outdir, posts_data,
                   kept>>

\* Lines 1119-1128: the output directory and the media directory are made.
MakeDirs ==
    /\ cpc = "L1121"
    /\ outdir' = outdir \cup {"output_dir", "media_dir"}
    /\ cpc' = "load"
    /\ UNCHANGED <<fetchVars, heapVars, parseVars, algVars, addrVars, mergeVars, jsonl, line_num,
                   all_media_urls, unique_urls, input_ok, posts_data, kept>>

\* Lines 997-1012: the post is stored under its id; a stored post_item is
\* replaced by one whose selftext is longer.
stored(pd, post_data, comment) ==
    LET id == post_data.name
        old == IF id \in DOMAIN pd THEN pd[id]
               ELSE [post_item |-> post_data, comments_listings |-> <<>>]
        item == IF strlen(post_data.selftext) > strlen(old.post_item.selftext)
                THEN post_data ELSE old.post_item
    IN [k \in DOMAIN pd \cup {id} |->
          IF k = id
          THEN [post_item |-> item,
                comments_listings |-> Append(old.comments_listings, comment)]
          ELSE pd[k]]

\* One iteration of the loop of load_jsonl_file (lines 945-1019): a line
\* that does not parse is skipped, otherwise the media URLs of its post and
\* of its comments are added to the set and the post is stored, as far as
\* the processing gets before an exception.
LoadLine ==
    /\ cpc = "load"
    /\ line_num < Len(jsonl)
    /\ jsonl[line_num + 1] # Undecodable
    /\ line_num' = line_num + 1
    /\ LET line == jsonl[line_num + 1]
           early == line.kind = "err" /\ line.at = "comment"
       IN IF line = BadLine
          THEN UNCHANGED <<all_media_urls, posts_data, kept>>
          ELSE /\ all_media_urls' =
                    all_media_urls
                      \cup extract_media_from_reddit_post(line.post)
                      \cup IF early THEN {}
                           ELSE extract_media_from_comment(line.comment)
               /\ IF line.post.name = "" \/ early
                  THEN UNCHANGED <<posts_data, kept>>
                  ELSE /\ posts_data' =
                            stored(posts_data, line.post, line.comment)
                       /\ kept' =
                            [k \in DOMAIN posts_data' |->
                               IF k \in DOMAIN posts_data
                                  /\ (k = line.post.name =>
                                        strlen(line.post.selftext)
                                          <= strlen(posts_data[k].post_item.selftext))
                               THEN kept[k] ELSE line_num + 1]
    /\ UNCHANGED <<fetchVars, heapVars, parseVars, algVars, addrVars, mergeVars, jsonl,
                   unique_urls, cpc, input_ok, outdir>>

\* Lines 944-945: the file iterator decodes the text outside the try of the
\* loop body, a buffer of several lines at a time: the UnicodeDecodeError
\* of a line not yet delivered leaves load_jsonl_file and main, at that line
\* or at a line before it in the same buffer.
ReadError ==
    /\ cpc = "load"
    /\ \E j \in (line_num + 1)..Len(jsonl) : jsonl[j] = Undecodable
    /\ cpc' = "aborted"
    /\ UNCHANGED <<fetchVars, heapVars, parseVars, algVars, addrVars, mergeVars, jsonl, line_num,
                   all_media_urls, unique_urls, input_ok, outdir, posts_data,
                   kept>>

\* Lines 1143-1145: no posts were found, main returns.
NoPosts ==
    /\ cpc = "load"
    /\ line_num = Len(jsonl)
    /\ DOMAIN posts_data = {}
    /\ cpc' = "exit_noposts"
    /\ UNCHANGED <<fetchVars, heapVars, parseVars, algVars, addrVars, mergeVars, jsonl, line_num,
                   all_media_urls, unique_urls, input_ok, outdir, posts_data,
                   kept>>

\* Lines 1147-1149 and 233: the set is handed over and made unique again.
Dispatch ==
    /\ cpc = "load"
    /\ line_num = Len(jsonl)
    /\ DOMAIN posts_data # {}
    /\ unique_urls' = all_media_urls
    /\ cpc' = "dispatched"
    /\ UNCHANGED <<fetchVars, heapVars, parseVars, algVars, addrVars, mergeVars, jsonl, line_num,
                   all_media_urls, input_ok, outdir, posts_data, kept>>

NextCollect ==
    GetInputFiles \/ MakeDirs \/ LoadLine \/ ReadError \/ NoPosts \/ Dispatch

SpecCollect == InitCollect /\ [][NextCollect]_vars


\* ------------------------------------------------- the merge of the comments
\* A dict keyed by comment id is the sequence of its values in insertion
\* order; a list of replies is a sequence of comments.
has(d, id) == \E i \in 1..Len(d) : d[i].id = id
get(d, id) == d[CHOOSE i \in 1..Len(d) : d[i].id = id]

\* A mutant of put: the value is appended whether or not the key exists.
put_append(d, c) == Append(d, c)

\* d[c.id] = c: a new key is appended, a key of the dict keeps its place.
put(d, c) ==
    IF has(d, c.id)
    THEN LET i == CHOOSE j \in 1..Len(d) : d[j].id = c.id
         IN SubSeq(d, 1, i - 1) \o <<c>> \o SubSeq(d, i + 1, Len(d))
    ELSE Append(d, c)

\* {reply['id']: reply.copy() for reply in replies1} (line 371).
RECURSIVE dict_of(_)
dict_of(replies) ==
    IF replies = <<>> THEN <<>>
    ELSE put(dict_of(SubSeq(replies, 1, Len(replies) - 1)),
             replies[Len(replies)])

\* A body that is neither empty nor the sentinel (lines 380-382, 405-407).
real(body) == body \notin {"", "[unavailable]"}

\* The key of the sort of line 392 is (score, createdAt): a is not after b
\* in the descending order.
KeyGE(a, b) ==
    \/ a.score > b.score
    \/ a.score = b.score /\ a.createdAt >= b.createdAt

\* A mutant of sorted: the merged values are returned in insertion order.
unsorted(values) == values

\* sorted(values, key=..., reverse=True): stable, equal keys keep their
\* order.
RECURSIVE sorted(_)
sorted(values) ==
    IF values = <<>> THEN <<>>
    ELSE LET front == sorted(SubSeq(values, 1, Len(values) - 1))
             last == values[Len(values)]
             k == Cardinality({i \in 1..Len(front) : KeyGE(front[i], last)})
         IN SubSeq(front, 1, k) \o <<last>> \o SubSeq(front, k + 1, Len(front))

RECURSIVE merge_comment_replies(_, _)
RECURSIVE merge_loop(_, _)

\* A mutant of winner: the later side wins whenever it has a real body.
latest_real(c1, c2) ==
    IF real(c2.body) THEN c2 ELSE c1

\* A mutant of winner: the first-seen side always keeps its fields.
first_seen(c1, c2) == c1

\* Lines 380-383 and 405-408: the side whose fields the merged node takes.
winner(c1, c2) ==
    IF ~real(c1.body) /\ real(c2.body) THEN c2 ELSE c1

\* A mutant of merged_node: the replies are those of the winning side.
winner_node(c1, c2) == winner(c1, c2)

\* Lines 377-386 and 402-411: the node stored for an id of both sides.
merged_node(c1, c2) ==
    [winner(c1, c2) EXCEPT
        !.replies = merge_comment_replies(c1.replies, c2.replies)]

\* A mutant of carried: the comment is taken over without its replies.
carried_bare(c) == [c EXCEPT !.replies = <<>>]

\* Lines 389 and 414: the copy stored for an id the dict does not have.
carried(c) == c

\* A mutant of merge_one: a comment whose id is new is not added.
merge_known(merged, c2) ==
    IF has(merged, c2.id)
    THEN put(merged, merged_node(get(merged, c2.id), c2))
    ELSE merged

\* One iteration of the loops of lines 374-389 and 399-414.
merge_one(merged, c2) ==
    IF has(merged, c2.id)
    THEN put(merged, merged_node(get(merged, c2.id), c2))
    ELSE put(merged, carried(c2))

merge_loop(merged, list2) ==
    IF list2 = <<>> THEN merged
    ELSE merge_loop(merge_one(merged, list2[1]), Tail(list2))

\* merge_comment_replies (lines 368-392).
merge_comment_replies(replies1, replies2) ==
    sorted(merge_loop(dict_of(replies1), replies2))

\* merge_comment_trees (lines 395-416): the dict is returned as it is.
merge_comment_trees(tree1, tree2) == merge_loop(tree1, tree2)

\* The comments of the listings, as parse_reddit_comment builds them (lines
\* 358-365).  In listing i every comment has the author Author(i), so that
\* a merged node shows the listing its fields come from.
Comment(id, author, body, score, createdAt, replies) ==
    [id |-> id, author |-> author, body |-> body, score |-> score,
     createdAt |-> createdAt, replies |-> replies]

Author(i) == <<"user", i>>
Bodies == {"", "[unavailable]", "text"}

\* The lists of at most n comments of S with different ids.
RECURSIVE ListsUpTo(_, _)
ListsUpTo(S, n) ==
    IF n = 0 THEN {<<>>}
    ELSE LET shorter == ListsUpTo(S, n - 1)
         IN shorter \cup {Append(l, c) :
                            l \in {k \in shorter : Len(k) = n - 1}, c \in S}

leaf_x(i) == Comment("x", Author(i), "text", 1, 10, <<>>)
leaf_y(i) == Comment("y", Author(i), "text", 2, 20, <<>>)
SubLists(i) == {<<>>, <<leaf_x(i)>>, <<leaf_y(i)>>}

\* The replies: c1, c2 and c3 with the scores and times of the spec's
\* example; c3 has another score in each listing.
Replies(i) ==
    {Comment("c1", Author(i), body, 5, 100, sub) :
        body \in Bodies, sub \in SubLists(i)}
    \cup {Comment("c2", Author(i), "text", 5, 200, <<>>),
          Comment("c3", Author(i), "text", 0 - i, 300, <<>>)}

NoDup(l) == \A j, k \in 1..Len(l) : l[j].id = l[k].id => j = k
ReplyLists(i) == {l \in ListsUpTo(Replies(i), MaxReplies) : NoDup(l)}

\* The top-level comments a and b, and the comment trees of listing i.
TopA(i) ==
    {Comment("a", Author(i), body, 3, 50, replies) :
        body \in Bodies, replies \in ReplyLists(i)}
top_b(i) == Comment("b", Author(i), "text", 7, 60, <<>>)
Trees(i) ==
    {<<>>, <<top_b(i)>>}
    \cup {<<c>> : c \in TopA(i)} \cup {<<c, top_b(i)>> : c \in TopA(i)}

\* Trees of one top-level comment: b, or a with a body and with replies
\* among c1 (with or without one reply) and c2, c1 first.
AlgLists(i) ==
    LET c1s == {Comment("c1", Author(i), body, 5, 100, sub) :
                   body \in {"", "text"}, sub \in SubLists(i)}
        c2 == Comment("c2", Author(i), "text", 5, 200, <<>>)
    IN {<<>>, <<c2>>} \cup {<<c>> : c \in c1s} \cup {<<c, c2>> : c \in c1s}
AlgTrees(i) ==
    {<<top_b(i)>>}
    \cup {<<Comment("a", Author(i), body, 3, 50, replies)>> :
            body \in {"[unavailable]", "text"}, replies \in AlgLists(i)}

\* comments_listings of one post collected from MaxFold lines: listing i
\* holds a tree of AlgTrees(i).
RECURSIVE AlgSeqs(_)
AlgSeqs(n) ==
    IF n = 0 THEN {<<>>}
    ELSE {Append(ls, t) : ls \in AlgSeqs(n - 1), t \in AlgTrees(n)}

\* comments_listings of one post: listing i holds a tree of Trees(i).
RECURSIVE ListingSeqs(_)
ListingSeqs(n) ==
    IF n = 0 THEN {<<>>}
    ELSE {Append(ls, t) : ls \in ListingSeqs(n - 1), t \in Trees(n)}

InitMerge ==
    /\ \/ \E n \in 0..MaxListings : listings \in ListingSeqs(n)
       \/ listings \in AlgSeqs(MaxFold)
    /\ li = 0
    /\ merged_comment_tree = <<>>
    /\ comment_tree = <<>>
    /\ mgpc = "L1167"
    /\ FetchIdle
    /\ HeapIdle
    /\ ParseIdle
    /\ AlgIdle
    /\ AddrIdle
    /\ CollectIdle

\* Lines 1169-1173: the post has no comments listing.
ParseAlone ==
    /\ mgpc = "L1167"
    /\ listings = <<>>
    /\ comment_tree' = <<>>
    /\ mgpc' = "done"
    /\ UNCHANGED <<fetchVars, heapVars, parseVars, algVars, addrVars, collectVars, listings, li,
                   merged_comment_tree>>

\* Lines 1176-1180: the post is parsed with the first listing.
ParseFirst ==
    /\ mgpc = "L1167"
    /\ listings # <<>>
    /\ comment_tree' = listings[1]
    /\ merged_comment_tree' = listings[1]
    /\ li' = 1
    /\ mgpc' = "L1181"
    /\ UNCHANGED <<fetchVars, heapVars, parseVars, algVars, addrVars, collectVars, listings>>

\* Lines 1181-1186: the next listing is parsed and merged.
MergeNext ==
    /\ mgpc = "L1181"
    /\ li < Len(listings)
    /\ merged_comment_tree' =
           merge_comment_trees(merged_comment_tree, listings[li + 1])
    /\ li' = li + 1
    /\ UNCHANGED <<fetchVars, heapVars, parseVars, algVars, addrVars, collectVars, listings, comment_tree,
                   mgpc>>

\* A mutant of StoreTree: the tree of the first parse stays the post's tree.
StoreFirst ==
    /\ mgpc = "L1181"
    /\ li = Len(listings)
    /\ comment_tree' = comment_tree
    /\ mgpc' = "done"
    /\ UNCHANGED <<fetchVars, heapVars, parseVars, algVars, addrVars, collectVars, listings, li,
                   merged_comment_tree>>

\* Lines 1188-1189: the merged tree becomes the post's tree.
StoreTree ==
    /\ mgpc = "L1181"
    /\ li = Len(listings)
    /\ comment_tree' = merged_comment_tree
    /\ mgpc' = "done"
    /\ UNCHANGED <<fetchVars, heapVars, parseVars, algVars, addrVars, collectVars, listings, li,
                   merged_comment_tree>>

NextMerge == ParseAlone \/ ParseFirst \/ MergeNext \/ StoreTree

SpecMerge == InitMerge /\ [][NextMerge]_vars


\* ------------------------------------------------------- the whole run
\* The first pass followed by the fetcher and the second pass.  The input
\* lines: a line that is not a listing pair, an undecodable line, a post
\* with URL U0 and a post whose selftext holds U1.
RunLines ==
    {BadLine, Undecodable,
     [kind |-> "ok",
      post |-> [name |-> "t3_p", url |-> U0, preview |-> NoUrl,
                selftext |-> <<>>],
      comment |-> [body |-> <<>>]],
     [kind |-> "ok",
      post |-> [name |-> "t3_p", url |-> NoUrl, preview |-> NoUrl,
                selftext |-> <<U1>>],
      comment |-> [body |-> <<>>]]}

InitRun ==
    /\ InitCollect
    /\ \A i \in 1..Len(jsonl) : jsonl[i] \in RunLines

\* A mutant of PostsFound: the fetcher is called as soon as a post is
\* stored.
PostsFoundEarly ==
    /\ cpc = "load"
    /\ DOMAIN posts_data # {}
    /\ unique_urls' = all_media_urls
    /\ cpc' = "dispatched"
    /\ run' = 1
    /\ urls' = all_media_urls
    /\ mpc' = "L1149"
    /\ UNCHANGED <<heapVars, parseVars, algVars, addrVars, mergeVars, jsonl,
                   line_num, all_media_urls, input_ok, outdir, posts_data,
                   kept>>
    /\ UNCHANGED <<results, repl, reconciled, fs0, histVars, fileVars, queue,
                   pc, attempt, lock, map, ret>>

\* Lines 1137-1149: the loop over the input is over and posts were found;
\* main goes on to the download of all_media_urls.
PostsFound ==
    /\ cpc = "load"
    /\ line_num = Len(jsonl)
    /\ DOMAIN posts_data # {}
    /\ unique_urls' = all_media_urls
    /\ cpc' = "dispatched"
    /\ run' = 1
    /\ urls' = all_media_urls
    /\ mpc' = "L1149"
    /\ UNCHANGED <<heapVars, parseVars, algVars, addrVars, mergeVars, jsonl,
                   line_num, all_media_urls, input_ok, outdir, posts_data,
                   kept>>
    /\ UNCHANGED <<results, repl, reconciled, fs0, histVars, fileVars, queue,
                   pc, attempt, lock, map, ret>>

NextRun ==
    \/ GetInputFiles \/ MakeDirs \/ LoadLine \/ ReadError \/ NoPosts
    \/ PostsFound
    \/ \E t \in Urls :
         \/ Start(t) \/ Acquire(t) \/ CheckMap(t)
         \/ Exists171(t) \/ Size171(t) \/ Record(t)
         \/ Request(t) \/ Sleep(t) \/ Open(t) \/ Chunk(t) \/ Flush(t)
         \/ StreamEnd(t) \/ StreamError(t)
         \/ Exists208(t) \/ Size208(t) \/ Exists214(t) \/ Remove215(t)
         \/ Submit(t) \/ Collect(t)
    \/ CallBatch \/ ReturnBatch \/ Update \/ BuildReplacements
    \/ Reconcile \/ Emit

SpecRun == InitRun /\ [][NextRun]_vars

\* ------------------------------------------- the merge on shared objects
\* A new object is put at the next address.
alloc(h, obj) == [heap |-> Append(h, obj), val |-> Len(h) + 1]

\* A mutant of copy: the object itself is used, no copy is made.
alias(h, a) == [heap |-> h, val |-> a]

\* dict.copy() (lines 371, 383, 389, 397, 408, 414): a new dict with the
\* same values; the replies list is shared with the original.
copy(h, a) == alloc(h, h[a])

\* The comments parse_reddit_comment builds (lines 346-365): each comment is
\* a new dict, its replies a new list.
RECURSIVE alloc_nodes(_, _)
RECURSIVE alloc_list(_, _)
alloc_node(h, c) ==
    LET r == alloc_list(h, c.replies)
    IN alloc(r.heap, [c EXCEPT !.replies = r.val])

alloc_nodes(h, values) ==
    IF values = <<>> THEN [heap |-> h, val |-> <<>>]
    ELSE LET first == alloc_node(h, values[1])
             rest == alloc_nodes(first.heap, Tail(values))
         IN [heap |-> rest.heap, val |-> <<first.val>> \o rest.val]

alloc_list(h, values) ==
    LET ns == alloc_nodes(h, values)
    IN alloc(ns.heap, [items |-> ns.val])

\* The trees of MaxFold listings, one after the other.
RECURSIVE alloc_trees(_, _)
alloc_trees(h, ts) ==
    IF ts = <<>> THEN [heap |-> h, val |-> <<>>]
    ELSE LET first == alloc_list(h, ts[1])
             rest == alloc_trees(first.heap, Tail(ts))
         IN [heap |-> rest.heap, val |-> <<first.val>> \o rest.val]

\* An entry of the local dict merged: the key and the address of its value.
Entry(id, a) == [id |-> id, addr |-> a]

\* {reply['id']: reply.copy() for reply in replies1} (lines 371, 397).
RECURSIVE copies_h(_, _, _)
copies_h(h, items, merged) ==
    IF items = <<>> THEN [heap |-> h, val |-> merged]
    ELSE LET c == copy(h, items[1])
         IN copies_h(c.heap, Tail(items),
                     put(merged, Entry(h[items[1]].id, c.val)))

\* merged.values() in the order of the sort of line 392.
sorted_addrs(h, merged) ==
    LET values == [j \in 1..Len(merged) |->
                     [addr |-> merged[j].addr,
                      score |-> h[merged[j].addr].score,
                      createdAt |-> h[merged[j].addr].createdAt]]
        s == sorted(values)
    IN [j \in 1..Len(s) |-> s[j].addr]

RECURSIVE merge_comment_replies_h(_, _, _)
RECURSIVE loop_h(_, _, _)

\* One iteration of the loops of lines 374-389 and 399-414: for an id of
\* both sides the replies are merged into a new list, the second side is
\* copied when it wins, and the list is assigned to the dict's value; a new
\* id gets a copy of the second side.
one_h(h, merged, a2) ==
    LET id == h[a2].id
    IN IF has(merged, id)
       THEN LET m == get(merged, id).addr
                rec == merge_comment_replies_h(h, h[m].replies, h[a2].replies)
                cp == IF ~real(h[m].body) /\ real(h[a2].body)
                      THEN copy(rec.heap, a2)
                      ELSE [heap |-> rec.heap, val |-> m]
            IN [heap |-> [cp.heap EXCEPT ![cp.val].replies = rec.val],
                val |-> put(merged, Entry(id, cp.val))]
       ELSE LET cp == copy(h, a2)
            IN [heap |-> cp.heap, val |-> put(merged, Entry(id, cp.val))]

loop_h(h, merged, items2) ==
    IF items2 = <<>> THEN [heap |-> h, val |-> merged]
    ELSE LET o == one_h(h, merged, items2[1])
         IN loop_h(o.heap, o.val, Tail(items2))

\* merge_comment_replies (lines 368-392) on the lists at replies1 and
\* replies2: the
\* address of the new sorted list.
merge_comment_replies_h(h, replies1, replies2) ==
    LET c == copies_h(h, h[replies1].items, <<>>)
        l == loop_h(c.heap, c.val, h[replies2].items)
    IN alloc(l.heap, [items |-> sorted_addrs(l.heap, l.val)])

\* merge_comment_trees (lines 395-416) on the dicts at tree1 and tree2: the
\* address of the new dict.
merge_comment_trees_h(h, tree1, tree2) ==
    LET c == copies_h(h, h[tree1].items, <<>>)
        l == loop_h(c.heap, c.val, h[tree2].items)
    IN alloc(l.heap, [items |-> [j \in 1..Len(l.val) |-> l.val[j].addr]])

\* The listings of a post have been parsed into trees.
InitHeap ==
    /\ \E ts \in AlgSeqs(MaxFold) :
           LET r == alloc_trees(<<>>, ts)
           IN heap = r.heap /\ tree_refs = r.val
    /\ merged_ref = 0
    /\ hi = 0
    /\ FetchIdle
    /\ AddrIdle
    /\ CollectIdle
    /\ MergeIdle
    /\ AlgIdle
    /\ ParseIdle

\* Line 1180: merged_comment_tree is the tree of the first parse.
FirstTree ==
    /\ hi = 0
    /\ tree_refs # <<>>
    /\ merged_ref' = tree_refs[1]
    /\ hi' = 1
    /\ UNCHANGED <<fetchVars, addrVars, collectVars, mergeVars, algVars,
                   parseVars, heap, tree_refs>>

\* Lines 1181-1186: the tree of the next listing is merged in.
MergeNextH ==
    /\ hi >= 1
    /\ hi < Len(tree_refs)
    /\ LET r == merge_comment_trees_h(heap, merged_ref, tree_refs[hi + 1])
       IN heap' = r.heap /\ merged_ref' = r.val
    /\ hi' = hi + 1
    /\ UNCHANGED <<fetchVars, addrVars, collectVars, mergeVars, algVars,
                   parseVars, tree_refs>>

NextHeap == FirstTree \/ MergeNextH

SpecHeap == InitHeap /\ [][NextHeap]_vars

\* ------------------------------------------------- parsing a listing
\* A child of a listing: a comment (kind t1), a "more" placeholder or an
\* item of another kind, with its name and the children of its replies
\* listing.  The other fields are absent, so the parse takes its defaults.
RawNode(kind, name, replies) ==
    [kind |-> kind, name |-> name, replies |-> replies]

NameT1(d) ==
    CASE d = 1 -> "t1_a" [] d = 2 -> "t1_c" [] d = 3 -> "t1_e"
      [] OTHER -> "t1_g"

\* Children at depth d: a comment has up to MaxReplies children (one at the
\* level above the leaves), a placeholder or another item none or one
\* comment.
RECURSIVE RawAt(_)
RawAt(d) ==
    LET below == IF d = MaxDepth THEN {} ELSE RawAt(d + 1)
        leafT1 == RawNode("t1", NameT1(d + 1), <<>>)
        few == IF d = MaxDepth THEN {<<>>} ELSE {<<>>, <<leafT1>>}
        subs == IF d = MaxDepth THEN {<<>>}
                ELSE IF d = MaxDepth - 1 THEN ListsUpTo(below, 1)
                ELSE ListsUpTo(below, MaxReplies)
    IN {RawNode("t1", NameT1(d), r) : r \in subs}
       \cup {RawNode("more", "t1_m", r) : r \in few}
       \cup {RawNode("t3", "t3_x", r) : r \in few}

NoComment == [kind |-> "None"]      \* parse_reddit_comment returned None

RECURSIVE parse_reddit_comment(_)
RECURSIVE parse_replies(_)

\* A mutant of parse_reddit_comment: the comment is built whatever the kind
\* of the item is.
parse_any(item) ==
    Comment(item.name, "[deleted]", "", 0, 0, parse_replies(item.replies))

\* Lines 327-365: None for an item that is not a comment, otherwise the
\* comment with its parsed replies.
parse_reddit_comment(item) ==
    IF item.kind # "t1" THEN NoComment
    ELSE Comment(item.name, "[deleted]", "", 0, 0,
                 parse_replies(item.replies))

\* Lines 350-356: the loop over the children of the replies listing.
parse_replies(items) ==
    IF items = <<>> THEN <<>>
    ELSE LET rest == parse_replies(Tail(items))
         IN IF Head(items).kind = "more" THEN rest
            ELSE LET reply == parse_reddit_comment(Head(items))
                 IN IF reply = NoComment THEN rest ELSE <<reply>> \o rest

\* parse_reddit_post is called with a comments listing.
InitParse ==
    /\ children \in ListsUpTo(RawAt(1), MaxReplies)
    /\ ci = 0
    /\ post_tree = <<>>
    /\ ppc = "L441"
    /\ FetchIdle
    /\ HeapIdle
    /\ AddrIdle
    /\ CollectIdle
    /\ MergeIdle
    /\ AlgIdle

\* Lines 441-449: one iteration of the loop of parse_reddit_post.
ParseChild ==
    /\ ppc = "L441"
    /\ ci < Len(children)
    /\ ci' = ci + 1
    /\ LET comment_item == children[ci + 1]
           comment == parse_reddit_comment(comment_item)
       IN post_tree' = IF comment_item.kind = "more" \/ comment = NoComment
                       THEN post_tree
                       ELSE put(post_tree, comment)
    /\ UNCHANGED <<fetchVars, heapVars, addrVars, collectVars, mergeVars, algVars,
                   children, ppc>>

\* Lines 451-460: the post is returned with its comment_tree.
ReturnPost ==
    /\ ppc = "L441"
    /\ ci = Len(children)
    /\ ppc' = "done"
    /\ UNCHANGED <<fetchVars, heapVars, addrVars, collectVars, mergeVars, algVars,
                   children, ci, post_tree>>

NextParse == ParseChild \/ ReturnPost

SpecParse == InitParse /\ [][NextParse]_vars

\* ------------------------------------- the merge applied to three trees
InitAlg ==
    /\ \E ta \in AlgTrees(1), tb \in AlgTrees(2), tc \in AlgTrees(3) :
           ins = <<ta, tb, tc>>
    /\ outs = <<>>
    /\ FetchIdle
    /\ HeapIdle
    /\ ParseIdle
    /\ AddrIdle
    /\ CollectIdle
    /\ MergeIdle

\* merge_comment_trees(A, A).
MergeSelf ==
    /\ Len(outs) = 0
    /\ outs' = Append(outs, merge_comment_trees(ins[1], ins[1]))
    /\ UNCHANGED <<fetchVars, heapVars, parseVars, addrVars, collectVars, mergeVars, ins>>

\* merge_comment_trees(A, B).
MergeAB ==
    /\ Len(outs) = 1
    /\ outs' = Append(outs, merge_comment_trees(ins[1], ins[2]))
    /\ UNCHANGED <<fetchVars, heapVars, parseVars, addrVars, collectVars, mergeVars, ins>>

\* merge_comment_trees(merge(A, B), B).
MergeAgain ==
    /\ Len(outs) = 2
    /\ outs' = Append(outs, merge_comment_trees(outs[2], ins[2]))
    /\ UNCHANGED <<fetchVars, heapVars, parseVars, addrVars, collectVars, mergeVars, ins>>

\* merge_comment_trees(merge(A, B), C).
MergeLeft ==
    /\ Len(outs) = 3
    /\ outs' = Append(outs, merge_comment_trees(outs[2], ins[3]))
    /\ UNCHANGED <<fetchVars, heapVars, parseVars, addrVars, collectVars, mergeVars, ins>>

\* merge_comment_trees(B, C).
MergeBC ==
    /\ Len(outs) = 4
    /\ outs' = Append(outs, merge_comment_trees(ins[2], ins[3]))
    /\ UNCHANGED <<fetchVars, heapVars, parseVars, addrVars, collectVars, mergeVars, ins>>

\* merge_comment_trees(A, merge(B, C)).
MergeRight ==
    /\ Len(outs) = 5
    /\ outs' = Append(outs, merge_comment_trees(ins[1], outs[5]))
    /\ UNCHANGED <<fetchVars, heapVars, parseVars, addrVars, collectVars, mergeVars, ins>>

NextAlg ==
    MergeSelf \/ MergeAB \/ MergeAgain \/ MergeLeft \/ MergeBC \/ MergeRight

SpecAlg == InitAlg /\ [][NextAlg]_vars


\* ================================================================ claims
Fetchers(d) == {t \in Urls : unescape(t) = d /\ reqs[t] > 0}
Twins(t) == (SamePath(t) \cap urls) \ {t}
MapPcs == {"L164", "L173", "L210"}
LockPcs == {"L163", "L172", "L209"}
FailureKinds == {"transport", "status", "stream", "zero"}

C2_JoinBarrier ==
    mpc \in {"L1151", "L1154", "L1165", "end"} =>
        /\ queue = <<>>
        /\ \A u \in Urls : pc[u] \in {"none", "done"}

\* C2 witness: a post has been reconciled after two tasks ran.
C2_Witness ==
    /\ mpc = "L1165" /\ reconciled > 0
    /\ Cardinality({u \in urls : pc[u] = "done" /\ reqs[u] > 0}) = 2

\* C3 as stated: when the batch returns, the mapping has one entry per
\* unique input URL, the value the URL's task returned, and a URL is absent
\* only if its own retrieval failed (no other task's failure changed it).
C3_IsolatedFailures ==
    mpc = "L1151" =>
        /\ Keys(results) = urls
        /\ \A u \in urls : results[u] = ret[u]
        /\ \A u \in urls : results[u] = None => netBad[u]

\* C4: the step in which a task succeeds (lines 173-175, 210-212) leaves the
\* map with the decoded and the original form of its URL as keys, both bound
\* to the path the task returns.
C4_BothFormsRecorded ==
    [][\A t \in Urls :
          (pc[t] \in {"L173", "L210"} /\ pc'[t] = "done") =>
              /\ ret'[t] = get_local_path_for_url(t)
              /\ map'[unescape(t)] = ret'[t]
              /\ map'[t] = ret'[t]]_vars

\* C4 witness: the task of the encoded URL has fetched, and the map binds
\* the URL and its decoded form to the task's path.
C4_Witness ==
    /\ how[U1] = "fetched"
    /\ map[U1] = get_local_path_for_url(U1)
    /\ map[U0] = get_local_path_for_url(U1)

C6_ExistingFileNoRequest ==
    \A t \in Urls :
        /\ pc[t] \in {"L172", "L173"} => reqs[t] = 0
        /\ how[t] = "existing" =>
              /\ reqs[t] = 0
              /\ ret[t] = get_local_path_for_url(t)
              /\ {t, unescape(t)} \subseteq wrote[t] \cup UNION {wrote[v] : v \in Twins(t)}
        /\ fs0[get_local_path_for_url(t)] = "data" =>
              /\ reqs[t] = 0
              /\ pc[t] = "done" => how[t] \in {"existing", "cached"}

\* C6 witness: in the second run a task found the file the first run left,
\* recorded it and returned it with no request.
C6_Witness ==
    \E t \in Urls :
        /\ run = 2 /\ fs0[get_local_path_for_url(t)] = "data"
        /\ how[t] = "existing" /\ reqs[t] = 0
        /\ map[t] = get_local_path_for_url(t)

\* C7 as stated: a task issues at most two requests; the second only after
\* the first attempt failed; and a first attempt that failed by a transport
\* error, a non-success status or a zero-byte file is followed by a second.
C7_RetryExactlyOnFailure ==
    \A t \in Urls :
        /\ reqs[t] <= 2
        /\ reqs[t] = 2 => fail[t][1] # "none"
        /\ (pc[t] = "done" /\ fail[t][1] \in FailureKinds) => reqs[t] = 2

\* C8 as stated: a task that makes its second attempt has slept the backoff
\* delay after the failure of the first.
C8_BackoffBeforeSecondAttempt ==
    \A t \in Urls : attempt[t] = 1 => slept[t]

\* C9: an attempt that finds its file zero bytes long (line 208) is a failed
\* attempt: it records nothing, and before the next attempt starts the task
\* has removed the file or found it gone, so that the file is absent when
\* the next attempt starts unless another task of the same path made one.
C9_ZeroByteFileDeleted ==
    \A t \in Urls :
        /\ (fail[t][1] = "zero" /\ attempt[t] = 0) =>
              /\ pc[t] \in {"L214", "L215", "done"}
              /\ wrote[t] = {}
        /\ fail[t][2] = "zero" =>
              /\ pc[t] \in {"L214", "L215", "done"}
              /\ wrote[t] = {}
              /\ how[t] \in {"none", "exhausted", "oserror"}
        /\ (fail[t][1] = "zero" /\ attempt[t] = 1) =>
              /\ cleaned[t] \in {"removed", "absent"}
              /\ (Twins(t) = {} /\ pc[t] = "L194") =>
                    fs[get_local_path_for_url(t)] = "absent"

\* C9 witness: a task whose first attempt left a zero-byte file has removed
\* it and is about to make its second attempt.
C9_Witness ==
    \E t \in Urls :
        /\ fail[t][1] = "zero" /\ cleaned[t] = "removed"
        /\ attempt[t] = 1 /\ pc[t] = "L194"
        /\ fs[get_local_path_for_url(t)] = "absent"

\* C10: a task that is at a read or a write of the map holds the lock, so at
\* most one task is at such a place; main writes the map only when no task
\* is pending or running.
C10_MapAccessUnderLock ==
    /\ \A t \in Urls : pc[t] \in MapPcs => lock = t
    /\ Cardinality({t \in Urls : pc[t] \in MapPcs}) <= 1
    /\ mpc = "L1151" => \A t \in Urls : pc[t] \in {"none", "done"}

\* C10 witness: one task is writing the map while another waits for the lock.
C10_Witness ==
    \E t, v \in Urls :
        /\ pc[t] \in {"L173", "L210"} /\ lock = t
        /\ pc[v] \in LockPcs

\* Every task of the run's URL set has completed.
FetchOver == urls # {} /\ \A u \in urls : pc[u] = "done"

C12_RaceBenign ==
    \A t \in urls : \A v \in Twins(t) :
        (FetchOver /\ reqs[t] > 0 /\ reqs[v] > 0) =>
            \A k \in Urls : map[k] = get_local_path_for_url(t)
                                => fs[get_local_path_for_url(t)] = "data"

\* C13 as stated: two strings whose decoded forms are equal get the same
\* local path, hash and extension.
C13_AddressingOnDecodedForm ==
    (p1 # NoKey /\ p2 # NoKey /\ unescape(r1) = unescape(r2)) => p1 = p2

\* C14 as stated: the set the first pass accumulates and the set the fetcher
\* dispatches hold at most one URL for each decoded form.
C14_OneUrlPerDecodedForm ==
    \A u, v \in all_media_urls \cup unique_urls :
        unescape(u) = unescape(v) => u = v

\* ---------------------------------------------------- claims on the merge
Ids(l) == {l[j].id : j \in 1..Len(l)}
IdSeq(l) == [j \in 1..Len(l) |-> l[j].id]
Scalars(c) == <<c.author, c.body, c.score, c.createdAt>>
Under(c) == Ids(c.replies) \cup UNION {Ids(c.replies[j].replies) : j \in 1..Len(c.replies)}
Descending(l) ==
    \A j, k \in 1..Len(l) :
        j < k => \/ l[j].score > l[k].score
                 \/ l[j].score = l[k].score /\ l[j].createdAt >= l[k].createdAt

\* Two trees have been merged into the post's tree.
Merged2 == mgpc = "done" /\ Len(listings) = 2
InBoth(l1, l2) == Ids(l1) \cap Ids(l2)

\* C15: the ids of the merged tree are the ids of both trees, each once; for
\* an id of both, the ids of its merged replies are those of both sides'
\* replies, and so one level further down.
C15_KeySetIsUnion ==
    Merged2 =>
        LET A == listings[1] B == listings[2] M == comment_tree
        IN /\ Ids(M) = Ids(A) \cup Ids(B) /\ NoDup(M)
           /\ \A id \in InBoth(A, B) :
                LET ra == get(A, id).replies
                    rb == get(B, id).replies
                    rm == get(M, id).replies
                IN /\ Ids(rm) = Ids(ra) \cup Ids(rb) /\ NoDup(rm)
                   /\ \A rid \in InBoth(ra, rb) :
                        /\ Ids(get(rm, rid).replies) =
                              Ids(get(ra, rid).replies)
                                  \cup Ids(get(rb, rid).replies)
                        /\ NoDup(get(rm, rid).replies)

\* C15 witness: a is in both trees and b in the second only; c1 is a reply
\* of a on both sides, with the reply x on one side and y on the other.
C15_Witness ==
    /\ Merged2
    /\ "a" \in InBoth(listings[1], listings[2])
    /\ "b" \in Ids(listings[2]) \ Ids(listings[1])
    /\ "c1" \in InBoth(get(listings[1], "a").replies,
                        get(listings[2], "a").replies)
    /\ Ids(get(get(comment_tree, "a").replies, "c1").replies) = {"x", "y"}
    /\ Ids(get(get(listings[1], "a").replies, "c1").replies) = {"x"}

\* C16: a comment whose id is in only one of the two inputs is in the
\* result as it was, replies included, at the top level and under an id
\* of both; trees with disjoint ids give exactly the comments of both.
C16_OneSideCarriedUnchanged ==
    Merged2 =>
        LET A == listings[1] B == listings[2] M == comment_tree
            Kept(l1, l2, lm) ==
                /\ \A j \in 1..Len(l1) :
                      l1[j].id \notin Ids(l2) => get(lm, l1[j].id) = l1[j]
                /\ \A j \in 1..Len(l2) :
                      l2[j].id \notin Ids(l1) => get(lm, l2[j].id) = l2[j]
        IN /\ Kept(A, B, M)
           /\ \A id \in InBoth(A, B) :
                LET ra == get(A, id).replies
                    rb == get(B, id).replies
                    rm == get(M, id).replies
                IN /\ Kept(ra, rb, rm)
                   /\ \A rid \in InBoth(ra, rb) :
                        Kept(get(ra, rid).replies, get(rb, rid).replies,
                             get(rm, rid).replies)
           /\ InBoth(A, B) = {} =>
                /\ Range(M) = Range(A) \cup Range(B)
                /\ Len(M) = Len(A) + Len(B)

\* C16 witness: the trees have no id in common, and the comment of the
\* second tree has replies, one of them with a reply of its own.
C16_Witness ==
    /\ Merged2
    /\ Ids(listings[1]) = {"b"} /\ Ids(listings[2]) = {"a"}
    /\ Len(listings[2][1].replies) = 2
    /\ \E j \in 1..2 : listings[2][1].replies[j].replies # <<>>
    /\ get(comment_tree, "a") = listings[2][1]

\* C17: for an id of both inputs, the merged node has the author, body,
\* score and createdAt of the side with a real body when the other side's
\* body is empty or "[unavailable]", whichever side comes first, and those
\* of the first side in every other case; at the top level and for the
\* replies of an id of both.
C17_RealBodyWins ==
    Merged2 =>
        LET A == listings[1] B == listings[2] M == comment_tree
            Chosen(c1, c2, m) ==
                /\ (real(c1.body) /\ ~real(c2.body)) => Scalars(m) = Scalars(c1)
                /\ (real(c2.body) /\ ~real(c1.body)) => Scalars(m) = Scalars(c2)
                /\ (real(c1.body) <=> real(c2.body)) => Scalars(m) = Scalars(c1)
        IN \A id \in InBoth(A, B) :
             /\ Chosen(get(A, id), get(B, id), get(M, id))
             /\ \A rid \in InBoth(get(A, id).replies, get(B, id).replies) :
                   Chosen(get(get(A, id).replies, rid),
                          get(get(B, id).replies, rid),
                          get(get(M, id).replies, rid))

\* C17 witness: a is "[unavailable]" in the first tree and real in the
\* second, and the merged a is the second's; its reply c1 is real in the
\* first tree and empty in the second, and the merged c1 is the first's.
C17_Witness ==
    /\ Merged2
    /\ "a" \in InBoth(listings[1], listings[2])
    /\ get(listings[1], "a").body = "[unavailable]"
    /\ get(listings[2], "a").body = "text"
    /\ get(comment_tree, "a").author = Author(2)
    /\ "c1" \in InBoth(get(listings[1], "a").replies,
                        get(listings[2], "a").replies)
    /\ get(get(listings[1], "a").replies, "c1").body = "text"
    /\ get(get(listings[2], "a").replies, "c1").body = ""
    /\ get(get(comment_tree, "a").replies, "c1").author = Author(1)

\* C18: for an id of both inputs the merged node's replies are the merge of
\* both sides' replies, and every id under that id on either side is
\* under it in the result; at the top level and for the replies of an id
\* of both.
C18_RepliesAlwaysMerged ==
    Merged2 =>
        LET A == listings[1] B == listings[2] M == comment_tree
            BothKept(c1, c2, m) ==
                /\ m.replies = merge_comment_replies(c1.replies, c2.replies)
                /\ Under(c1) \cup Under(c2) \subseteq Under(m)
        IN \A id \in InBoth(A, B) :
             /\ BothKept(get(A, id), get(B, id), get(M, id))
             /\ \A rid \in InBoth(get(A, id).replies, get(B, id).replies) :
                   BothKept(get(get(A, id).replies, rid),
                            get(get(B, id).replies, rid),
                            get(get(M, id).replies, rid))

\* C18 witness: the second tree wins the fields of a, the first tree's a
\* has the reply c2 and, under c1, the reply x, which the second tree's a
\* has not; both are under the merged a.
C18_Witness ==
    /\ Merged2
    /\ "a" \in InBoth(listings[1], listings[2])
    /\ get(comment_tree, "a").author = Author(2)
    /\ {"c2", "x"} \subseteq Under(get(listings[1], "a"))
    /\ {"c2", "x"} \cap Under(get(listings[2], "a")) = {}
    /\ "c1" \in Ids(get(listings[2], "a").replies)
    /\ {"c2", "x"} \subseteq Under(get(comment_tree, "a"))

\* C19: the replies of a merged node, at each level, are in the order of
\* score descending and then createdAt descending, whatever the order of
\* the lists that were merged.
C19_RepliesSorted ==
    Merged2 =>
        LET A == listings[1] B == listings[2] M == comment_tree
        IN \A id \in InBoth(A, B) :
             /\ Descending(get(M, id).replies)
             /\ \A rid \in InBoth(get(A, id).replies, get(B, id).replies) :
                   Descending(get(get(M, id).replies, rid).replies)

\* C19 witness: the spec's example; [c3, c1] and [c2] are merged to
\* [c2, c1, c3], and below c1 [x] and [y] to [y, x].
C19_Witness ==
    /\ Merged2
    /\ "a" \in InBoth(listings[1], listings[2])
    /\ IdSeq(get(listings[1], "a").replies) = <<"c3", "c1">>
    /\ IdSeq(get(listings[2], "a").replies) = <<"c2">>
    /\ IdSeq(get(comment_tree, "a").replies) = <<"c2", "c1", "c3">>
    /\ get(comment_tree, "a").replies[3].score = 0 - 1

\* C20 as stated: the order of the top-level comments of the merged tree is
\* the same when the two listings are collected in the other order.
C20_TopLevelOrderFixed ==
    Merged2 =>
        IdSeq(comment_tree) =
            IdSeq(merge_comment_trees(listings[2], listings[1]))

\* C30 as stated, in its weakest reading: a task that ended with both
\* attempts failed, and that shares its local path with no other task, has
\* left no non-empty file at that path (the claim says no file at all).
C30_NoFileAfterFailure ==
    \A t \in urls :
        (pc[t] = "done" /\ how[t] = "exhausted" /\ Twins(t) = {}
            /\ fs0[get_local_path_for_url(t)] = "absent")
            => fs[get_local_path_for_url(t)] # "data"

\* Lines of the input read so far that hold a post with this id, and those
\* of them whose selftext is longest.
Seen(id) ==
    {i \in 1..line_num :
        /\ \/ jsonl[i].kind = "ok"
           \/ jsonl[i].kind = "err" /\ jsonl[i].at = "next"
        /\ jsonl[i].post.name = id}

Longest(id) ==
    {i \in Seen(id) :
        \A j \in Seen(id) :
            strlen(jsonl[j].post.selftext) <= strlen(jsonl[i].post.selftext)}

\* C23: for each post id the retained post record is one with the longest
\* selftext among the records seen for the id, and among records of equal
\* longest length it is the one seen last.
C23_LongestLaterSeenRetained ==
    \A id \in DOMAIN posts_data :
        LET last == CHOOSE i \in Longest(id) : \A j \in Longest(id) : j <= i
        IN posts_data[id].post_item = jsonl[last].post

CollectOver == cpc \in {"dispatched", "exit_noposts", "aborted"}

\* C26: a malformed line never aborts the run: when the first pass is over,
\* every well-formed line of the input has been collected, its media URLs
\* are in the set and its post is stored.
C26_MalformedLineSkipped ==
    CollectOver =>
        \A i \in 1..Len(jsonl) :
            jsonl[i].kind = "ok" =>
                /\ extract_media_from_reddit_post(jsonl[i].post)
                       \subseteq all_media_urls
                /\ extract_media_from_comment(jsonl[i].comment)
                       \subseteq all_media_urls
                /\ jsonl[i].post.name # "" =>
                       jsonl[i].post.name \in DOMAIN posts_data

\* C27: the run ends early only for want of input files or of posts, and
\* then it has handed nothing to the fetcher and has created nothing in the
\* output location.
C27_OnlyTwoFatalConditions ==
    /\ cpc # "aborted"
    /\ cpc \in {"exit_nofiles", "exit_noposts"} =>
           unique_urls = {} /\ outdir = {}

\* merge_comment_trees folded from the left over the first n listings.
RECURSIVE fold(_, _)
fold(ls, n) ==
    IF n = 1 THEN ls[1]
    ELSE merge_comment_trees(fold(ls, n - 1), ls[n])

\* The ids of a tree with the ids of their ancestors.
RECURSIVE IdPaths(_)
IdPaths(l) ==
    UNION {{<<l[j].id>>}
             \cup {<<l[j].id>> \o q : q \in IdPaths(l[j].replies)} :
           j \in 1..Len(l)}

\* C25: the tree of a post with one listing or more is merge_comment_trees
\* folded from the left over its listings in the order collected, and every
\* comment id of every listing is in it, under the same ancestors.
C25_TreeIsLeftFold ==
    (mgpc = "done" /\ Len(listings) >= 1) =>
        /\ comment_tree = fold(listings, Len(listings))
        /\ \A k \in 1..Len(listings) :
               IdPaths(listings[k]) \subseteq IdPaths(comment_tree)

\* Three listings were folded; the third brought a comment two levels below
\* a comment of the first, the second a reply the others do not have.
C25_Witness ==
    /\ mgpc = "done"
    /\ Len(listings) = 3
    /\ <<"a">> \in IdPaths(listings[1])
    /\ \E q \in IdPaths(listings[3]) :
           /\ Len(q) = 3
           /\ q \notin IdPaths(listings[1]) \cup IdPaths(listings[2])
           /\ q \in IdPaths(comment_tree)
    /\ \E q \in IdPaths(listings[2]) :
           /\ Len(q) = 2
           /\ q \notin IdPaths(listings[1]) \cup IdPaths(listings[3])
           /\ q \in IdPaths(comment_tree)

\* The names of the comments of a raw listing that have only comments above
\* them, with the names of those.
RECURSIVE T1Paths(_)
T1Paths(items) ==
    UNION {IF items[j].kind = "t1"
           THEN {<<items[j].name>>}
                  \cup {<<items[j].name>> \o q : q \in T1Paths(items[j].replies)}
           ELSE {} :
           j \in 1..Len(items)}

\* The top-level comments of a raw listing that no later comment of the
\* listing shares its name with: the dict keeps the last value of a key.
LastT1(items) ==
    {j \in 1..Len(items) :
        /\ items[j].kind = "t1"
        /\ ~\E k \in (j + 1)..Len(items) :
               items[k].kind = "t1" /\ items[k].name = items[j].name}

\* C28: the tree built from a listing holds a node only for a comment-kind
\* child that has comment-kind children above it: never for a "more"
\* placeholder, nor for anything below one.
C28_OnlyCommentsParsed ==
    /\ IdPaths(post_tree) \subseteq T1Paths(SubSeq(children, 1, ci))
    /\ ppc = "done" =>
           IdPaths(post_tree) =
               UNION {T1Paths(<<children[j]>>) : j \in LastT1(children)}

\* The listing parsed has a placeholder at the top level with a comment
\* below it, and a comment whose replies hold a placeholder and a comment
\* with a reply.
C28_Witness ==
    /\ ppc = "done"
    /\ \E j \in 1..Len(children) :
           children[j].kind = "more" /\ children[j].replies # <<>>
    /\ \E j \in 1..Len(children) :
           /\ children[j].kind = "t1"
           /\ \E k \in 1..Len(children[j].replies) :
                  children[j].replies[k].kind = "more"
           /\ \E k \in 1..Len(children[j].replies) :
                  /\ children[j].replies[k].kind = "t1"
                  /\ children[j].replies[k].replies # <<>>
    /\ \E q \in IdPaths(post_tree) : Len(q) = 3

\* The tree a list or dict object stands for.
RECURSIVE value_of(_, _)
value_of(h, la) ==
    [j \in 1..Len(h[la].items) |->
        [h[h[la].items[j]] EXCEPT
            !.replies = value_of(h, h[h[la].items[j]].replies)]]

\* The comment objects of a tree, each with the ids from the top down to it.
RECURSIVE NodesAt(_, _)
NodesAt(h, la) ==
    UNION {LET a == h[la].items[j]
           IN {[path |-> <<h[a].id>>, addr |-> a]}
                \cup {[path |-> <<h[a].id>> \o n.path, addr |-> n.addr] :
                        n \in NodesAt(h, h[a].replies)} :
           j \in 1..Len(h[la].items)}

\* C29: a merge changes no object that existed before it, its result is
\* the function of the two input trees, and every comment of the result
\* whose id, with its ancestors, is in both inputs is an object made by
\* this merge.
C29_MergeIsPure ==
    [][(hi >= 1 /\ hi' = hi + 1) =>
          LET in1 == merged_ref
              in2 == tree_refs[hi + 1]
          IN /\ \A a \in 1..Len(heap) : heap'[a] = heap[a]
             /\ value_of(heap', merged_ref') =
                    merge_comment_trees(value_of(heap, in1),
                                        value_of(heap, in2))
             /\ \A n \in NodesAt(heap', merged_ref') :
                    n.path \in IdPaths(value_of(heap, in1))
                                 \cap IdPaths(value_of(heap, in2))
                        => n.addr > Len(heap)]_vars

\* All listings are merged; comment a and its reply c1 were in the first
\* two, a without a body in the first, so that the copy of the second one
\* got the merged replies; the third brought a reply to c1.
C29_Witness ==
    /\ hi = MaxFold
    /\ LET A == value_of(heap, tree_refs[1])
           B == value_of(heap, tree_refs[2])
           C == value_of(heap, tree_refs[3])
           M == value_of(heap, merged_ref)
       IN /\ <<"a", "c1">> \in IdPaths(A) \cap IdPaths(B)
          /\ A[1].body = "[unavailable]"
          /\ B[1].body = "text"
          /\ M[1].body = "text"
          /\ \E q \in IdPaths(C) :
                 Len(q) = 3 /\ q \notin IdPaths(A) \cup IdPaths(B)
                            /\ q \in IdPaths(M)

\* The phase of the run: 1 Collect (or ended before the fetcher), 2 Fetch,
\* 3 Reconcile & Emit; and main's position from the call of the fetcher on.
Phase(m) ==
    IF m = "off" THEN 1
    ELSE IF m \in {"L1149", "L245", "L247", "L1151"} THEN 2 ELSE 3

MainRank(m) ==
    CASE m = "off" -> 0 [] m = "L1149" -> 1 [] m = "L245" -> 2
      [] m = "L247" -> 3 [] m = "L1151" -> 4 [] m = "L1154" -> 5
      [] m = "L1165" -> 6 [] m = "end" -> 7

FetchStarted == mpc # "off" \/ \E t \in Urls : pc[t] # "none"

\* The media URLs of all well-formed lines of the input.
GlobalUrlSet ==
    UNION {extract_media_from_reddit_post(jsonl[i].post)
             \cup extract_media_from_comment(jsonl[i].comment) :
           i \in {j \in 1..Len(jsonl) : jsonl[j].kind = "ok"}}

\* C24: the phases follow one another without a step back and main passes
\* the call of the fetcher once at most; when the fetcher has been reached
\* or a task exists, every line of the input has been read and the URLs
\* handed over are those of the whole input; from then on no line is read.
C24_PhasesInOrder ==
    /\ [](FetchStarted =>
              /\ cpc = "dispatched"
              /\ line_num = Len(jsonl)
              /\ urls = all_media_urls
              /\ all_media_urls = GlobalUrlSet)
    /\ [][/\ Phase(mpc') >= Phase(mpc)
          /\ MainRank(mpc') >= MainRank(mpc)
          /\ mpc' = "L245" => mpc \in {"L1149", "L245"}
          /\ FetchStarted =>
                 line_num' = line_num /\ all_media_urls' = all_media_urls]_vars

\* The run is over: two lines were read, the URLs of both were fetched by
\* one call, and the post was reconciled.
C24_Witness ==
    /\ mpc = "end"
    /\ Len(jsonl) = 2
    /\ line_num = 2
    /\ urls = {U0, U1}
    /\ \A t \in urls : pc[t] = "done" /\ reqs[t] > 0
    /\ reconciled > 0

C31_BatchEventuallyReturns ==
    (mpc = "L245") ~> (mpc = "L1151" /\ \A t \in urls : pc[t] = "done")

\* C32: a line whose processing ends in a warning leaves the stored posts
\* and the set of media URLs as they were before the line was read.
C32_SkippedLineLeavesNoTrace ==
    [][(line_num' = line_num + 1
          /\ jsonl[line_num + 1].kind \in {"bad", "err"})
         => posts_data' = posts_data /\ all_media_urls' = all_media_urls]_vars

\* ------------------------------------- claims on the merge of three trees
\* Two lists hold the same ids, each once, with the same fields, and so do
\* the replies of each id; the order of the lists may differ.
RECURSIVE SameUpToOrder(_, _)
SameUpToOrder(l1, l2) ==
    /\ Ids(l1) = Ids(l2) /\ NoDup(l1) /\ NoDup(l2)
    /\ \A id \in Ids(l1) :
          /\ Scalars(get(l1, id)) = Scalars(get(l2, id))
          /\ SameUpToOrder(get(l1, id).replies, get(l2, id).replies)

\* Two lists hold the same ids, and so do the replies of each id.
RECURSIVE SameIds(_, _)
SameIds(l1, l2) ==
    /\ Ids(l1) = Ids(l2)
    /\ \A id \in Ids(l1) : SameIds(get(l1, id).replies, get(l2, id).replies)

\* C21: merge(A, A) has the top-level order of A and, up to the order of
\* the reply lists, the content of A; merge(merge(A, B), B) is merge(A, B)
\* in the same sense.
C21_MergeAgainChangesNothing ==
    /\ Len(outs) >= 1 =>
          IdSeq(outs[1]) = IdSeq(ins[1]) /\ SameUpToOrder(outs[1], ins[1])
    /\ Len(outs) >= 3 =>
          IdSeq(outs[3]) = IdSeq(outs[2]) /\ SameUpToOrder(outs[3], outs[2])

\* C21 witness: both merges were made; A holds a with the sentinel body and
\* the replies [c1, c2], B holds a with a real body; merge(A, A) has
\* another reply order than A, merge(merge(A, B), B) has [c2, c1].
C21_Witness ==
    /\ Len(outs) >= 3
    /\ outs[1] # ins[1]
    /\ ins[1][1].id = "a" /\ ins[2][1].id = "a"
    /\ ins[1][1].body = "[unavailable]" /\ ins[2][1].body = "text"
    /\ IdSeq(ins[1][1].replies) = <<"c1", "c2">>
    /\ IdSeq(outs[3][1].replies) = <<"c2", "c1">>

\* C22: merge(merge(A, B), C) and merge(A, merge(B, C)) have the same
\* top-level ids and, under every id, the same reply ids at every depth.
C22_SameIdsEitherPairing ==
    Len(outs) = 6 => SameIds(outs[4], outs[6])

\* C22 witness: a is in the three trees and c1 is a reply of a in the
\* three; x is under c1 in A only, y in C only, c2 under a in B only; the
\* two pairings are merged and hold them all.
C22_Witness ==
    /\ Len(outs) = 6
    /\ \A n \in 1..3 : ins[n][1].id = "a" /\ has(ins[n][1].replies, "c1")
    /\ Under(ins[1][1]) = {"c1", "x"}
    /\ Under(ins[2][1]) = {"c1", "c2"}
    /\ Under(ins[3][1]) = {"c1", "y"}
    /\ Under(outs[4][1]) = {"c1", "c2", "x", "y"}
    /\ Under(outs[6][1]) = {"c1", "c2", "x", "y"}

\* The comment of a tree at an id path.
RECURSIVE NodeAt(_, _)
NodeAt(l, q) ==
    IF Len(q) = 1 THEN get(l, q[1])
    ELSE NodeAt(get(l, q[1]).replies, Tail(q))

\* Of three trees in fold order, the first that has a comment with a real
\* body at the path, or the first that has the path when none has.
Holders(ts, q) == {i \in 1..Len(ts) : q \in IdPaths(ts[i])}
WinnerAt(ts, q) ==
    LET withBody == {i \in Holders(ts, q) : real(NodeAt(ts[i], q).body)}
        from == IF withBody # {} THEN withBody ELSE Holders(ts, q)
    IN CHOOSE i \in from : \A j \in from : i <= j

\* C33: in the merge of three listings every comment has the author, body,
\* score and time of the first listing in order whose comment at that place
\* has a real body, or of the first listing that has it when none has; and
\* so for the left pairing as for the right one.
C33_FirstRealBodyWins ==
    Len(outs) = 6 =>
        \A k \in {4, 6} :
            \A q \in IdPaths(outs[k]) :
                Scalars(NodeAt(outs[k], q))
                    = Scalars(NodeAt(ins[WinnerAt(ins, q)], q))

\* Comment a with reply c1 is in all three trees; a has a real body from
\* the second tree on, c1 only in the third.
C33_Witness ==
    /\ Len(outs) = 6
    /\ \A i \in 1..3 : <<"a", "c1">> \in IdPaths(ins[i])
    /\ ~real(NodeAt(ins[1], <<"a">>).body)
    /\ real(NodeAt(ins[2], <<"a">>).body)
    /\ ~real(NodeAt(ins[1], <<"a", "c1">>).body)
    /\ ~real(NodeAt(ins[2], <<"a", "c1">>).body)
    /\ real(NodeAt(ins[3], <<"a", "c1">>).body)
    /\ NodeAt(outs[4], <<"a">>).author = Author(2)
    /\ NodeAt(outs[4], <<"a", "c1">>).author = Author(3)
    /\ NodeAt(outs[6], <<"a", "c1">>).author = Author(3)

\* No id twice among the comments of a list, nor among the replies of any
\* comment below.
RECURSIVE NoDupBelow(_)
NoDupBelow(l) ==
    /\ \A j, k \in 1..Len(l) : l[j].id = l[k].id => j = k
    /\ \A j \in 1..Len(l) : NoDupBelow(l[j].replies)

\* C34: in the tree of a post no id occurs twice at the top level or among
\* the replies of one comment, also when the listing parsed repeats an id.
C34_IdsUniquePerParent ==
    ppc = "done" => NoDupBelow(post_tree)

=============================================================================
